---- MODULE Spec2Model ----
(***************************************************************************)
(* Model of scripts/ssh-gh.py: main() and ssh_with_gh_token(), the local   *)
(* processes they spawn, the daemon injector thread, and the remote host's *)
(* view of the bootstrap command line and of the injector's `cat > path`.  *)
(*                                                                         *)
(* One invocation of the script runs at a time; invocations follow each    *)
(* other (retries), and the remote filesystem persists between them.       *)
(***************************************************************************)
EXTENDS Integers, Sequences, FiniteSets, TLC

(* ---------------------------------------------------------------- bounds *)
\* Number of invocations of the script in one behaviour.
MaxAttempts == 2

(* ---------------------------------------------------------------- values *)
\* Python None, for every optional value.
NONE == "None"
\* Tokens `gh auth token` can print.
Tokens == {"tokA", "tokB"}
\* Hosts named in ~/.ssh/config and Tailscale peers with sshHostKeys.
SshHosts == {"build01"}
TsHosts == {"peer1"}
\* Answers to prompt_username().
Users == {"vscode"}
\* Values of secrets.token_hex(4), eight hex digits (2^32 of them in the
\* program); the rendezvous path is /tmp/gh-pipe-<suffix>.
Suffix == {"3fa9c1d2", "b07e44a1"}
NoPath == NONE
\* Exit statuses the interactive ssh can end with: the remote shell's own
\* status, 130 for a remote command killed by SIGINT, 255 for an ssh error.
ShellStatus == {0, 1}
\* No exit status yet: the process is still running.
Running == -1

VARIABLES
    attempt,    \* number of invocations started so far
    pc,         \* position of the main thread of the current invocation
    plain,      \* --plain
    host,       \* --host, then the selected host
    isTs,       \* is_tailscale_host
    username,   \* username
    token,      \* main's token
    allHosts,   \* all_hosts, as a set of [ts, name]
    fifoPath,   \* fifo_path of the current invocation (NoPath: none generated)
    nPaths,     \* number of paths generated by the current invocation
    usedPaths,  \* the paths earlier invocations generated
    procs,      \* subprocess.run/Popen calls of the current invocation, in order
    nThreads,   \* threads started by the current invocation
    inj,        \* position of the injector (thread, then its ssh and remote cat)
    injWrites,  \* subprocess.run calls made by inject_token
    injIno,     \* the FIFO the injector's open is blocked on
    boot,       \* position of the interactive ssh and of its remote command
    umaskPub,   \* remote umask leaves new files readable by others (022)
    tmpOk,      \* the remote user can create objects in /tmp
    sshBin,     \* the ssh program is installed locally
    envTok,     \* MY_GH_TOKEN in the remote bootstrap shell (NONE: unset)
    fs,         \* remote filesystem: what is at /tmp/gh-pipe-<s>
    pipe,       \* kernel state of the FIFO the current bootstrap created
    sshStatus,  \* exit status of the interactive ssh (Running: none yet)
    raised,     \* exception subprocess.run raised in the main thread
    exitCode,   \* exit status of the invocation (Running: none yet)
    printed,    \* console messages of the current invocation
    leaked,     \* tokens another remote principal read during this invocation
    vscPc,      \* vsc.py: position of the process in open_vscode_devcontainer
    vscHost,    \* vsc.py: host
    dockerHost, \* vsc.py: os.environ["DOCKER_HOST"] (NONE: not in os.environ)
    dockerBefore, \* vsc.py: DOCKER_HOST when open_vscode_devcontainer was entered
    containers, \* vsc.py: containers, the names list_containers returned
    codeBin,    \* vsc.py: the program get_code_command() names is installed
    vscProcs    \* vsc.py: subprocess.run calls, with the DOCKER_HOST they inherit

vars == <<attempt, pc, plain, host, isTs, username, token, allHosts, fifoPath,
          nPaths, usedPaths, procs, nThreads, inj, injWrites, injIno,
          boot, umaskPub, tmpOk, sshBin, envTok, fs, pipe, sshStatus, raised,
          exitCode, printed, leaked, vscPc, vscHost, dockerHost, dockerBefore,
          containers, codeBin, vscProcs>>

\* The variables of ssh-gh.py and those of vsc.py: the two scripts are
\* separate processes and share no state.
sshGhVars == <<attempt, pc, plain, host, isTs, username, token, allHosts,
               fifoPath, nPaths, usedPaths, procs, nThreads, inj, injWrites,
               injIno, boot, umaskPub, tmpOk, sshBin, envTok, fs, pipe,
               sshStatus, raised, exitCode, printed, leaked>>
vscVars == <<vscPc, vscHost, dockerHost, dockerBefore, containers, codeBin,
             vscProcs>>

localVars == <<plain, host, isTs, username, token, allHosts, sshBin>>
sessVars == <<fifoPath, nPaths, usedPaths, nThreads>>
injVars == <<inj, injWrites, injIno>>
hostVars == <<umaskPub, tmpOk>>
remoteVars == <<boot, envTok, fs, pipe, leaked>>
endVars == <<sshStatus, raised, exitCode>>

(* --------------------------------------------------------------- helpers *)
NoObject == [kind |-> "none", pub |-> FALSE, data |-> "", ino |-> 0]
NoPipe == [buf |-> NONE, wopen |-> FALSE, otherfd |-> FALSE]

\* f"{username}@{host}" if username else host
SshTarget(u, h) == [user |-> u, host |-> h]

\* A call that spawns a local process: its program, its argument vector as
\* the set of literal values embedded in it, the rendezvous path its remote
\* command names, and what is fed to its standard input. The call is
\* recorded whether or not the program turns out to be installed.
Proc(prog, kind, target, path, lits, stdin) ==
    [prog |-> prog, kind |-> kind, target |-> target, path |-> path,
     lits |-> lits, stdin |-> stdin]

NoTarget == SshTarget(NONE, NONE)

\* Python truthiness of `token`: None and "" are falsy.
Truthy(t) == t # NONE /\ t # ""

Init ==
    /\ attempt = 0
    /\ pc = "idle"
    /\ plain = FALSE
    /\ host = NONE
    /\ isTs = FALSE
    /\ username = NONE
    /\ token = NONE
    /\ allHosts = {}
    /\ fifoPath = NoPath
    /\ nPaths = 0
    /\ usedPaths = {}
    /\ procs = <<>>
    /\ nThreads = 0
    /\ inj = "none"
    /\ injWrites = 0
    /\ injIno = 0
    /\ boot = "none"
    /\ umaskPub \in BOOLEAN
    /\ tmpOk \in BOOLEAN
    /\ sshBin = TRUE
    /\ envTok = NONE
    /\ fs = [s \in Suffix |-> NoObject]
    /\ pipe = NoPipe
    /\ sshStatus = Running
    /\ raised = NONE
    /\ exitCode = Running
    /\ printed = {}
    /\ leaked = {}
    /\ vscPc = "off"
    /\ vscHost = NONE
    /\ dockerHost = NONE
    /\ dockerBefore = NONE
    /\ containers = <<>>
    /\ codeBin = TRUE
    /\ vscProcs = <<>>

(* ------------------------------------------------------------------ main *)
\* The injector of the previous invocation is no longer in flight: it never
\* ran, it ended, or its remote cat is blocked for good on a FIFO nobody reads.
InjectorQuiet == inj \in {"none", "killed", "done", "failed", "blocked"}

\* The operator runs the script: typer calls main(host, plain).
Invoke(p, h) ==
    /\ pc \in {"idle", "exited"}
    /\ attempt < MaxAttempts
    /\ InjectorQuiet
    /\ attempt' = attempt + 1
    /\ pc' = "get_token"
    /\ plain' = p
    /\ host' = h
    /\ isTs' = FALSE
    /\ username' = NONE
    /\ token' = NONE
    /\ allHosts' = {}
    /\ fifoPath' = NoPath
    /\ nPaths' = 0
    /\ procs' = <<>>
    /\ nThreads' = 0
    /\ inj' = "none"
    /\ injWrites' = 0
    /\ injIno' = 0
    /\ boot' = "none"
    /\ envTok' = NONE
    /\ pipe' = NoPipe
    /\ sshStatus' = Running
    /\ raised' = NONE
    /\ exitCode' = Running
    /\ printed' = {}
    /\ sshBin' \in BOOLEAN
    /\ usedPaths' = usedPaths \cup ({fifoPath} \ {NoPath})
    /\ leaked' = {}
    /\ UNCHANGED <<hostVars, fs>>
    /\ UNCHANGED vscVars

\* The ways `gh auth token` can end: check=True raises CalledProcessError on
\* a non-zero exit, a missing gh raises FileNotFoundError, and otherwise gh
\* printed `text` followed by a newline.
GhRuns ==
    {[err |-> "ok", text |-> t] : t \in Tokens \cup {""}}
    \cup {[err |-> e, text |-> ""] : e \in {"CalledProcessError", "FileNotFoundError"}}

\* get_gh_token(): result.stdout.strip(), or None after either exception.
GetGhToken(run) == IF run.err = "ok" THEN run.text ELSE NONE

\* MainToken without the `if not token: raise typer.Exit(1)` of lines 268-269.
MainTokenNoAbort(run) ==
    /\ pc = "get_token"
    /\ IF plain
       THEN /\ token' = NONE
            /\ UNCHANGED <<procs, printed>>
       ELSE /\ procs' = Append(procs, Proc("gh", "credential", NoTarget, NoPath,
                                           {"gh", "auth", "token"}, NONE))
            /\ token' = GetGhToken(run)
            /\ printed' = IF run.err = "ok" THEN printed
                          ELSE printed \cup {"Error: " \o run.err}
    /\ pc' = "hosts"
    /\ UNCHANGED <<attempt, plain, host, isTs, username, allHosts, sshBin>>
    /\ UNCHANGED <<sessVars, injVars, hostVars, remoteVars, endVars>>
    /\ UNCHANGED vscVars

\* MainToken with `token = get_gh_token()` whatever --plain says.
MainTokenIgnoresPlain(run) ==
    /\ pc = "get_token"
    /\ procs' = Append(procs, Proc("gh", "credential", NoTarget, NoPath,
                                   {"gh", "auth", "token"}, NONE))
    /\ token' = GetGhToken(run)
    /\ printed' = IF run.err = "ok" THEN printed
                  ELSE printed \cup {"Error: " \o run.err}
    /\ IF plain \/ Truthy(GetGhToken(run))
       THEN pc' = "hosts" /\ exitCode' = exitCode
       ELSE pc' = "exited" /\ exitCode' = 1
    /\ UNCHANGED <<attempt, plain, host, isTs, username, allHosts, sshBin>>
    /\ UNCHANGED <<sessVars, injVars, hostVars, remoteVars, sshStatus, raised>>
    /\ UNCHANGED vscVars

\* main, lines 265-269.
MainToken(run) ==
    /\ pc = "get_token"
    /\ IF plain
       THEN /\ token' = NONE
            /\ pc' = "hosts"
            /\ UNCHANGED <<procs, printed, exitCode>>
       ELSE /\ procs' = Append(procs, Proc("gh", "credential", NoTarget, NoPath,
                                           {"gh", "auth", "token"}, NONE))
            /\ token' = GetGhToken(run)
            /\ printed' = IF run.err = "ok" THEN printed
                          ELSE printed \cup {"Error: " \o run.err}
            /\ IF Truthy(GetGhToken(run))
               THEN pc' = "hosts" /\ exitCode' = exitCode
               ELSE pc' = "exited" /\ exitCode' = 1
    /\ UNCHANGED <<attempt, plain, host, isTs, username, allHosts, sshBin>>
    /\ UNCHANGED <<sessVars, injVars, hostVars, remoteVars, sshStatus, raised>>
    /\ UNCHANGED vscVars

\* main, lines 274-284: host discovery when no --host was given.
MainDiscover(sh, th) ==
    /\ pc = "hosts"
    /\ IF host # NONE
       THEN /\ pc' = "username"
            /\ UNCHANGED <<allHosts, procs, printed, exitCode>>
       ELSE /\ allHosts' = {[ts |-> FALSE, name |-> n] : n \in sh}
                           \cup {[ts |-> TRUE, name |-> n] : n \in th}
            /\ procs' = Append(procs, Proc("tailscale", "discovery", NoTarget,
                                           NoPath, {"tailscale", "status", "--json"},
                                           NONE))
            /\ IF sh = {} /\ th = {}
               THEN /\ printed' = printed \cup {"No hosts found"}
                    /\ pc' = "exited"
                    /\ exitCode' = 1
               ELSE /\ pc' = "select"
                    /\ UNCHANGED <<printed, exitCode>>
    /\ UNCHANGED <<attempt, plain, host, isTs, username, token, sshBin>>
    /\ UNCHANGED <<sessVars, injVars, hostVars, remoteVars, sshStatus, raised>>
    /\ UNCHANGED vscVars

\* main, lines 291-301: fzf_select and the Tailscale prefix.
\*   sel = NoSel: fzf was cancelled, is missing, or failed (fzf_select
\*   returns None).
NoSel == [ts |-> FALSE, name |-> NONE]

\* MainSelect without the `raise typer.Exit(0)` of line 294: a cancelled
\* selection is reported and main goes on to the session with no host.
MainSelectNoExit(sel) ==
    /\ pc = "select"
    /\ procs' = Append(procs, Proc("fzf", "selection", NoTarget, NoPath,
                                   {"fzf", "--header"}, "choices"))
    /\ IF sel = NoSel
       THEN /\ printed' = printed \cup {"No host selected"}
            /\ UNCHANGED <<host, isTs>>
       ELSE /\ sel \in allHosts
            /\ host' = sel.name
            /\ isTs' = sel.ts
            /\ UNCHANGED printed
    /\ pc' = "username"
    /\ UNCHANGED <<attempt, plain, username, token, allHosts, sshBin>>
    /\ UNCHANGED <<sessVars, injVars, hostVars, remoteVars, endVars>>
    /\ UNCHANGED vscVars

MainSelect(sel) ==
    /\ pc = "select"
    /\ procs' = Append(procs, Proc("fzf", "selection", NoTarget, NoPath,
                                   {"fzf", "--header"}, "choices"))
    /\ IF sel = NoSel
       THEN /\ printed' = printed \cup {"No host selected"}
            /\ pc' = "exited"
            /\ exitCode' = 0
            /\ UNCHANGED <<host, isTs>>
       ELSE /\ sel \in allHosts
            /\ host' = sel.name
            /\ isTs' = sel.ts
            /\ pc' = "username"
            /\ UNCHANGED <<printed, exitCode>>
    /\ UNCHANGED <<attempt, plain, username, token, allHosts, sshBin>>
    /\ UNCHANGED <<sessVars, injVars, hostVars, remoteVars, sshStatus, raised>>
    /\ UNCHANGED vscVars

\* main, lines 303-306: prompt_username for a Tailscale host, then the call
\* of ssh_with_gh_token(host, token, username). main reads all_hosts and
\* is_tailscale_host no more; the model forgets them here.
MainUsername(u) ==
    /\ pc = "username"
    /\ username' = IF isTs THEN u ELSE NONE
    /\ pc' = "session"
    /\ allHosts' = {}
    /\ isTs' = FALSE
    /\ UNCHANGED <<attempt, plain, host, token, sshBin, procs, printed>>
    /\ UNCHANGED <<sessVars, injVars, hostVars, remoteVars, endVars>>
    /\ UNCHANGED vscVars

(* ----------------------------------------------------- ssh_with_gh_token *)
\* The argument vector of the interactive ssh: ssh -t target <bootstrap>.
\* The bootstrap text names the path and the literal $MY_GH_TOKEN, which the
\* remote shell expands; the token itself is not part of it.
InteractiveProc(target, path) ==
    Proc("ssh", "interactive", target, path,
         {"ssh", "-t", "mkfifo", "$MY_GH_TOKEN"}, NONE)

\* InjectorProc with the token written into the remote command text,
\* ["ssh", ssh_target, f"echo {token} > {fifo_path}"], and nothing on stdin.
InjectorProcArgv(target, path, tok) ==
    Proc("ssh", "injector", target, path, {"ssh", "echo", ">", tok}, NONE)

\* ["ssh", ssh_target, f"cat > {fifo_path}"] with input=token.
InjectorProc(target, path, tok) ==
    Proc("ssh", "injector", target, path, {"ssh", "cat >"}, tok)

\* ["ssh", ssh_target]
PlainProc(target) ==
    Proc("ssh", "plain", target, NoPath, {"ssh"}, NONE)

\* SessionPlain without the `if not token:` branch of line 198: a session
\* without a token goes down the secured path.
SessionPlainAsSecured ==
    /\ pc = "session"
    /\ ~Truthy(token)
    /\ \E s \in Suffix : fifoPath' = s
    /\ nPaths' = nPaths + 1
    /\ pc' = "thread"
    /\ UNCHANGED <<attempt, localVars, usedPaths, nThreads, injVars, hostVars>>
    /\ UNCHANGED <<remoteVars, procs, printed, endVars>>
    /\ UNCHANGED vscVars

\* Lines 198-201: no token, so subprocess.run(["ssh", ssh_target]).
\* A missing ssh raises FileNotFoundError, caught at line 205.
SessionPlain ==
    /\ pc = "session"
    /\ ~Truthy(token)
    /\ pc' = "wait"
    /\ printed' = printed \cup {"plain mode"}
    /\ procs' = Append(procs, PlainProc(SshTarget(username, host)))
    /\ IF sshBin
       THEN boot' = "connecting" /\ raised' = raised
       ELSE boot' = boot /\ raised' = "Exception"
    /\ UNCHANGED <<attempt, localVars, sessVars, injVars, hostVars>>
    /\ UNCHANGED <<envTok, fs, pipe, leaked, sshStatus, exitCode>>
    /\ UNCHANGED vscVars

\* Line 212: fifo_path = f"/tmp/gh-pipe-{secrets.token_hex(4)}".
SessionPath(s) ==
    /\ pc = "session"
    /\ Truthy(token)
    /\ s \in Suffix
    /\ fifoPath' = s
    /\ nPaths' = nPaths + 1
    /\ pc' = "thread"
    /\ UNCHANGED <<attempt, localVars, usedPaths, nThreads, injVars, hostVars>>
    /\ UNCHANGED remoteVars
    /\ UNCHANGED <<procs, printed, endVars>>
    /\ UNCHANGED vscVars

\* Line 240: threading.Thread(target=inject_token, daemon=True).start().
ThreadStart ==
    /\ pc = "thread"
    /\ nThreads' = nThreads + 1
    /\ inj' = "sleeping"
    /\ pc' = "spawn"
    /\ UNCHANGED <<attempt, localVars, fifoPath, nPaths, usedPaths>>
    /\ UNCHANGED <<injWrites, injIno, hostVars, remoteVars>>
    /\ UNCHANGED <<procs, printed, endVars>>
    /\ UNCHANGED vscVars

\* SpawnInteractive with the path generated again where the bootstrap text
\* is built, instead of once at line 212.
SpawnInteractiveNewPath ==
    /\ pc = "spawn"
    /\ pc' = "wait"
    /\ \E s \in Suffix :
          /\ fifoPath' = s
          /\ procs' = Append(procs, InteractiveProc(SshTarget(username, host), s))
    /\ nPaths' = nPaths + 1
    /\ IF sshBin
       THEN boot' = "connecting" /\ raised' = raised
       ELSE boot' = boot /\ raised' = "Exception"
    /\ UNCHANGED <<attempt, localVars, usedPaths, nThreads, injVars, hostVars>>
    /\ UNCHANGED <<envTok, fs, pipe, leaked, sshStatus, exitCode, printed>>
    /\ UNCHANGED vscVars

\* Line 243: subprocess.run(["ssh", "-t", ssh_target, remote_interactive_cmd]).
SpawnInteractive ==
    /\ pc = "spawn"
    /\ pc' = "wait"
    /\ procs' = Append(procs, InteractiveProc(SshTarget(username, host), fifoPath))
    /\ IF sshBin
       THEN boot' = "connecting" /\ raised' = raised
       ELSE boot' = boot /\ raised' = "Exception"
    /\ UNCHANGED <<attempt, localVars, sessVars, injVars, hostVars>>
    /\ UNCHANGED <<envTok, fs, pipe, leaked, sshStatus, exitCode, printed>>
    /\ UNCHANGED vscVars

\* What the try statement of lines 242-250 (200-208 in plain mode) prints.
Outcome(r) ==
    IF r = "KeyboardInterrupt" THEN "Interrupted"
    ELSE IF r = "Exception" THEN "Connection error"
    ELSE "Session closed"

\* The status main ends with after ssh_with_gh_token returned: the function
\* returns None, main returns, and typer exits with 0.
MainExitStatus(status, r) == 0

\* SessionReturn with the thread joined before ssh_with_gh_token returns:
\* the coordinator waits for the injector's outcome.
SessionReturnJoined ==
    /\ pc = "wait"
    /\ sshStatus # Running \/ raised # NONE
    /\ inj \in {"none", "done", "failed"}
    /\ printed' = printed \cup {Outcome(raised), "Returned to local environment"}
    /\ exitCode' = MainExitStatus(sshStatus, raised)
    /\ pc' = "exited"
    /\ UNCHANGED <<attempt, localVars, sessVars, injVars>>
    /\ UNCHANGED <<hostVars, remoteVars, procs, sshStatus, raised>>
    /\ UNCHANGED vscVars

\* Lines 244-250 (202-209), the return of ssh_with_gh_token, the end of main
\* and of the interpreter. A daemon thread does not outlive the interpreter:
\* an injector still asleep never runs; an ssh it already spawned is a
\* separate process and goes on.
SessionReturn ==
    /\ pc = "wait"
    /\ sshStatus # Running \/ raised # NONE
    /\ printed' = printed \cup {Outcome(raised), "Returned to local environment"}
    /\ exitCode' = MainExitStatus(sshStatus, raised)
    /\ inj' = IF inj \in {"sleeping", "awake"} THEN "killed" ELSE inj
    /\ pc' = "exited"
    /\ UNCHANGED <<attempt, localVars, sessVars, injWrites, injIno>>
    /\ UNCHANGED <<hostVars, remoteVars, procs, sshStatus, raised>>
    /\ UNCHANGED vscVars

(* ------------------------------------------- the interactive connection *)
\* The interactive ssh is running (its subprocess.run has not returned).
Attached == pc = "wait" /\ sshStatus = Running /\ raised = NONE

\* ssh fails before any remote command runs: exit status 255.
ConnectFail ==
    /\ Attached
    /\ boot = "connecting"
    /\ boot' = "noconn"
    /\ sshStatus' = 255
    /\ UNCHANGED <<attempt, pc, localVars, sessVars, injVars, hostVars>>
    /\ UNCHANGED <<envTok, fs, pipe, leaked, procs, raised, exitCode, printed>>
    /\ UNCHANGED vscVars

\* The connection is up: the remote shell starts remote_interactive_cmd, or
\* in plain mode the login shell.
ConnectOk ==
    /\ Attached
    /\ boot = "connecting"
    /\ boot' = IF fifoPath = NoPath THEN "shell" ELSE "rm1"
    /\ UNCHANGED <<attempt, pc, localVars, sessVars, injVars, hostVars>>
    /\ UNCHANGED <<envTok, fs, pipe, leaked, procs, endVars, printed>>
    /\ UNCHANGED vscVars

\* Line 216: rm -f {fifo_path}. It fails, and the && list with it, only when
\* there is something to remove and /tmp does not allow it.
BootRm1 ==
    /\ Attached
    /\ boot = "rm1"
    /\ IF fs[fifoPath].kind = "none" \/ tmpOk
       THEN /\ fs' = [fs EXCEPT ![fifoPath] = NoObject]
            /\ boot' = "mkfifo"
            /\ UNCHANGED sshStatus
       ELSE /\ boot' = "failed"
            /\ sshStatus' = 1
            /\ UNCHANGED fs
    /\ UNCHANGED <<attempt, pc, localVars, sessVars, injVars, hostVars>>
    /\ UNCHANGED <<envTok, pipe, leaked, procs, raised, exitCode, printed>>
    /\ UNCHANGED vscVars

\* The FIFO mkfifo creates: its mode is 0666 & ~umask.
NewFifo == [kind |-> "fifo", pub |-> umaskPub, data |-> "", ino |-> attempt]

\* Line 217: mkfifo {fifo_path}. It fails when something is at the path
\* (EEXIST) or /tmp is not writable; the && list then ends and the remote
\* shell exits with mkfifo's status.
BootMkfifo ==
    /\ Attached
    /\ boot = "mkfifo"
    /\ IF fs[fifoPath].kind = "none" /\ tmpOk
       THEN /\ fs' = [fs EXCEPT ![fifoPath] = NewFifo]
            /\ pipe' = NoPipe
            /\ boot' = "chmod"
            /\ UNCHANGED sshStatus
       ELSE /\ boot' = "failed"
            /\ sshStatus' = 1
            /\ UNCHANGED <<fs, pipe>>
    /\ UNCHANGED <<attempt, pc, localVars, sessVars, injVars, hostVars>>
    /\ UNCHANGED <<envTok, leaked, procs, raised, exitCode, printed>>
    /\ UNCHANGED vscVars

\* Line 217: chmod 600 {fifo_path}.
BootChmod ==
    /\ Attached
    /\ boot = "chmod"
    /\ fs' = [fs EXCEPT ![fifoPath].pub = FALSE]
    /\ boot' = "cat"
    /\ UNCHANGED <<attempt, pc, localVars, sessVars, injVars, hostVars>>
    /\ UNCHANGED <<envTok, pipe, leaked, procs, endVars, printed>>
    /\ UNCHANGED vscVars

\* Line 218: $(cat {fifo_path}) opens the FIFO for reading. The open returns
\* once a writer has the FIFO open, and blocks until then.
BootCatOpen ==
    /\ Attached
    /\ boot = "cat"
    /\ boot' = IF pipe.wopen THEN "reading" ELSE "open_wait"
    /\ UNCHANGED <<attempt, pc, localVars, sessVars, injVars, hostVars>>
    /\ UNCHANGED <<envTok, fs, pipe, leaked, procs, endVars, printed>>
    /\ UNCHANGED vscVars

\* Line 218: cat reads to end of file, which comes when the writer has
\* closed; the command substitution's output becomes MY_GH_TOKEN.
BootCatEof ==
    /\ Attached
    /\ boot = "reading"
    /\ ~pipe.wopen
    /\ envTok' = IF pipe.buf = NONE THEN "" ELSE pipe.buf
    /\ pipe' = [pipe EXCEPT !.buf = NONE]
    /\ boot' = "rm2"
    /\ UNCHANGED <<attempt, pc, localVars, sessVars, injVars, hostVars>>
    /\ UNCHANGED <<fs, leaked, procs, endVars, printed>>
    /\ UNCHANGED vscVars

\* Line 218: cat fails: it cannot open the FIFO, or it is killed on its own
\* while it waits. `export V=$(cmd)` has the status of export, not of cmd, so
\* the && list goes on with an empty value.
BootCatFail ==
    /\ Attached
    /\ boot \in {"cat", "open_wait", "reading"}
    /\ envTok' = ""
    /\ boot' = "rm2"
    /\ UNCHANGED <<attempt, pc, localVars, sessVars, injVars, hostVars>>
    /\ UNCHANGED <<fs, pipe, leaked, procs, endVars, printed>>
    /\ UNCHANGED vscVars

\* Line 218: rm -f {fifo_path}, after the export.
BootRm2 ==
    /\ Attached
    /\ boot = "rm2"
    /\ fs' = [fs EXCEPT ![fifoPath] = NoObject]
    /\ boot' = "export"
    /\ UNCHANGED <<attempt, pc, localVars, sessVars, injVars, hostVars>>
    /\ UNCHANGED <<envTok, pipe, leaked, procs, endVars, printed>>
    /\ UNCHANGED vscVars

\* Lines 219-224: the GIT_CONFIG_* and DISPLAY exports, the echo, and
\* exec ${SHELL:-/bin/sh} -l, which keeps the environment.
BootExec ==
    /\ Attached
    /\ boot = "export"
    /\ boot' = "shell"
    /\ UNCHANGED <<attempt, pc, localVars, sessVars, injVars, hostVars>>
    /\ UNCHANGED <<envTok, fs, pipe, leaked, procs, endVars, printed>>
    /\ UNCHANGED vscVars

\* Line 221: what the credential helper of GIT_CONFIG_VALUE_0 prints when git
\* runs it in the login shell, whose environment has MY_GH_TOKEN = v: the
\* shell function expands $MY_GH_TOKEN at that moment.
CredentialHelper(v) == <<"username=x-access-token", "password=" \o v>>

\* The operator leaves the login shell; ssh exits with the shell's status.
ShellExit(st) ==
    /\ Attached
    /\ boot = "shell"
    /\ st \in ShellStatus
    /\ boot' = "closed"
    /\ envTok' = NONE
    /\ sshStatus' = st
    /\ UNCHANGED <<attempt, pc, localVars, sessVars, injVars, hostVars>>
    /\ UNCHANGED <<fs, pipe, leaked, procs, raised, exitCode, printed>>
    /\ UNCHANGED vscVars

\* The remote bootstrap has started and has not reached the login shell.
InBootstrap == boot \in {"rm1", "mkfifo", "chmod", "cat", "open_wait", "reading",
                         "rm2", "export"}

\* Line 245: the operator interrupts while ssh is still connecting, the
\* terminal not yet raw: Python raises KeyboardInterrupt in subprocess.run,
\* which kills the ssh child.
InterruptLocal ==
    /\ Attached
    /\ boot = "connecting"
    /\ boot' = "killed"
    /\ raised' = "KeyboardInterrupt"
    /\ UNCHANGED <<attempt, pc, localVars, sessVars, injVars, hostVars>>
    /\ UNCHANGED <<envTok, fs, pipe, leaked, procs, sshStatus, exitCode, printed>>
    /\ UNCHANGED vscVars

\* The operator interrupts during the bootstrap: with -t the remote pty
\* delivers SIGINT to the remote shell and to cat, both die, the rest of the
\* && list never runs, and ssh exits with 130.
InterruptRemote ==
    /\ Attached
    /\ InBootstrap
    /\ boot' = "killed"
    /\ envTok' = NONE
    /\ sshStatus' = 130
    /\ UNCHANGED <<attempt, pc, localVars, sessVars, injVars, hostVars>>
    /\ UNCHANGED <<fs, pipe, leaked, procs, raised, exitCode, printed>>
    /\ UNCHANGED vscVars

(* ---------------------------------------------------------- the injector *)
\* The interpreter of the current invocation is alive, so its daemon thread
\* runs and can print.
ThreadAlive == pc # "exited"

\* Line 228: time.sleep(1.2) returns. The 1.2 s outlast the main thread's
\* one statement between Thread.start() and its subprocess.run, so the
\* interactive ssh has been spawned; how far its connection and its remote
\* command have come in 1.2 s is not tied to the sleep in any way.
InjWake ==
    /\ inj = "sleeping"
    /\ ThreadAlive
    /\ pc # "spawn"
    /\ inj' = "awake"
    /\ UNCHANGED <<attempt, pc, localVars, sessVars, injWrites, injIno>>
    /\ UNCHANGED <<hostVars, remoteVars, procs, endVars, printed>>
    /\ UNCHANGED vscVars

\* Lines 229-236: subprocess.run(["ssh", ssh_target, f"cat > {fifo_path}"],
\* input=token, check=True). A missing ssh raises FileNotFoundError, caught
\* and printed at lines 237-238.
InjSpawn ==
    /\ inj = "awake"
    /\ ThreadAlive
    /\ injWrites' = injWrites + 1
    /\ procs' = Append(procs, InjectorProc(SshTarget(username, host), fifoPath, token))
    /\ IF sshBin
       THEN inj' = "connecting" /\ printed' = printed
       ELSE inj' = "failed" /\ printed' = printed \cup {"Token injection failed"}
    /\ UNCHANGED <<attempt, pc, localVars, sessVars, injIno>>
    /\ UNCHANGED <<hostVars, remoteVars, endVars>>
    /\ UNCHANGED vscVars

\* What the injector's failure leaves behind: check=True raises
\* CalledProcessError, and lines 237-238 print it, if the thread still runs.
InjReport == IF ThreadAlive THEN printed \cup {"Token injection failed"} ELSE printed

\* InjConnectFail with a retry: the except clause runs the delivery again.
InjConnectFailRetry ==
    /\ inj = "connecting"
    /\ inj' = IF ThreadAlive THEN "awake" ELSE "failed"
    /\ printed' = InjReport
    /\ UNCHANGED <<attempt, pc, localVars, sessVars, injWrites, injIno>>
    /\ UNCHANGED <<hostVars, remoteVars, procs, endVars>>
    /\ UNCHANGED vscVars

\* InjConnectFail with the exception leaving the thread: the failure is
\* raised into the main thread's subprocess.run instead of being printed.
InjConnectFailPropagates ==
    /\ inj = "connecting"
    /\ inj' = "failed"
    /\ raised' = "Exception"
    /\ UNCHANGED <<attempt, pc, localVars, sessVars, injWrites, injIno>>
    /\ UNCHANGED <<hostVars, remoteVars, procs, sshStatus, exitCode, printed>>
    /\ UNCHANGED vscVars

\* The injector's ssh cannot connect or authenticate: exit status 255.
InjConnectFail ==
    /\ inj = "connecting"
    /\ inj' = "failed"
    /\ printed' = InjReport
    /\ UNCHANGED <<attempt, pc, localVars, sessVars, injWrites, injIno>>
    /\ UNCHANGED <<hostVars, remoteVars, procs, endVars>>
    /\ UNCHANGED vscVars

\* The injector's connection is up: the remote shell is about to run
\* `cat > {fifo_path}`.
InjConnectOk ==
    /\ inj = "connecting"
    /\ inj' = "open"
    /\ UNCHANGED <<attempt, pc, localVars, sessVars, injWrites, injIno>>
    /\ UNCHANGED <<hostVars, remoteVars, procs, endVars, printed>>
    /\ UNCHANGED vscVars

\* The regular file the redirection creates: mode 0666 & ~umask, empty.
NewFile == [kind |-> "file", pub |-> umaskPub, data |-> "", ino |-> attempt]

\* The redirection `> {fifo_path}` of the injector's remote command: an
\* open with O_WRONLY|O_CREAT|O_TRUNC of whatever is at the path now.
\*   nothing there: a regular file is created (or the open fails when /tmp
\*                  is not writable, and the remote shell exits non-zero);
\*   a regular file: it is truncated;
\*   a FIFO:        the open blocks until the FIFO has a reader.
InjRedirect ==
    /\ inj = "open"
    /\ LET obj == fs[fifoPath] IN
       IF obj.kind = "none"
       THEN IF tmpOk
            THEN /\ fs' = [fs EXCEPT ![fifoPath] = NewFile]
                 /\ inj' = "writefile"
                 /\ UNCHANGED <<injIno, printed>>
            ELSE /\ inj' = "failed"
                 /\ printed' = InjReport
                 /\ UNCHANGED <<fs, injIno>>
       ELSE IF obj.kind = "file"
       THEN /\ fs' = [fs EXCEPT ![fifoPath].data = ""]
            /\ inj' = "writefile"
            /\ UNCHANGED <<injIno, printed>>
       ELSE /\ inj' = "blocked"
            /\ injIno' = obj.ino
            /\ UNCHANGED <<fs, printed>>
    /\ UNCHANGED <<attempt, pc, localVars, sessVars, injWrites>>
    /\ UNCHANGED <<hostVars, boot, envTok, pipe, leaked, procs, endVars>>
    /\ UNCHANGED vscVars

\* cat copies its standard input, the token, into the regular file and
\* exits 0. A file unlinked meanwhile (rm -f) takes the data with it.
InjWriteFile ==
    /\ inj = "writefile"
    /\ fs' = IF fs[fifoPath].kind = "file"
             THEN [fs EXCEPT ![fifoPath].data = token]
             ELSE fs
    /\ inj' = "done"
    /\ UNCHANGED <<attempt, pc, localVars, sessVars, injWrites, injIno>>
    /\ UNCHANGED <<hostVars, boot, envTok, pipe, leaked, procs, endVars, printed>>
    /\ UNCHANGED vscVars

\* The FIFO of the current bootstrap has a reader: the bootstrap's cat, in
\* its open or past it, or a descriptor another principal holds.
HasReader == boot \in {"open_wait", "reading"} \/ pipe.otherfd

\* The blocked open of the FIFO returns: the FIFO is the one this
\* invocation's bootstrap created, and it has a reader. The bootstrap's own
\* blocked open returns with it.
InjOpenFifo ==
    /\ inj = "blocked"
    /\ injIno = attempt
    /\ HasReader
    /\ pipe' = [pipe EXCEPT !.wopen = TRUE]
    /\ boot' = IF boot = "open_wait" THEN "reading" ELSE boot
    /\ inj' = "writefifo"
    /\ UNCHANGED <<attempt, pc, localVars, sessVars, injWrites, injIno>>
    /\ UNCHANGED <<hostVars, envTok, fs, leaked, procs, endVars, printed>>
    /\ UNCHANGED vscVars

\* cat writes the token into the FIFO and exits, closing it. With no reader
\* left the write raises SIGPIPE and the remote command fails.
InjWriteFifo ==
    /\ inj = "writefifo"
    /\ IF HasReader
       THEN /\ pipe' = [pipe EXCEPT !.buf = token, !.wopen = FALSE]
            /\ inj' = "done"
            /\ UNCHANGED printed
       ELSE /\ pipe' = [pipe EXCEPT !.wopen = FALSE]
            /\ inj' = "failed"
            /\ printed' = InjReport
    /\ UNCHANGED <<attempt, pc, localVars, sessVars, injWrites, injIno>>
    /\ UNCHANGED <<hostVars, boot, envTok, fs, leaked, procs, endVars>>
    /\ UNCHANGED vscVars

(* ------------------------------------- another principal on the remote host *)
\* Another user opens the FIFO for reading (non-blocking) while its mode
\* lets others read it; the descriptor stays valid after chmod and rm.
OtherOpenFifo ==
    /\ fifoPath # NoPath
    /\ fs[fifoPath].kind = "fifo"
    /\ fs[fifoPath].ino = attempt
    /\ fs[fifoPath].pub
    /\ ~pipe.otherfd
    /\ pipe' = [pipe EXCEPT !.otherfd = TRUE]
    /\ UNCHANGED <<attempt, pc, localVars, sessVars, injVars, hostVars>>
    /\ UNCHANGED <<boot, envTok, fs, leaked, procs, endVars, printed>>
    /\ UNCHANGED vscVars

\* Another user reads what is in the FIFO through that descriptor.
OtherReadFifo ==
    /\ pipe.otherfd
    /\ pipe.buf # NONE
    /\ leaked' = leaked \cup {pipe.buf}
    /\ pipe' = [pipe EXCEPT !.buf = NONE]
    /\ UNCHANGED <<attempt, pc, localVars, sessVars, injVars, hostVars>>
    /\ UNCHANGED <<boot, envTok, fs, procs, endVars, printed>>
    /\ UNCHANGED vscVars

\* Another user reads a regular file at a rendezvous path whose mode lets
\* others read it.
OtherReadFile(s) ==
    /\ s \in Suffix
    /\ fs[s].kind = "file"
    /\ fs[s].pub
    /\ fs[s].data # ""
    /\ fs[s].data \notin leaked
    /\ leaked' = leaked \cup {fs[s].data}
    /\ UNCHANGED <<attempt, pc, localVars, sessVars, injVars, hostVars>>
    /\ UNCHANGED <<boot, envTok, fs, pipe, procs, endVars, printed>>
    /\ UNCHANGED vscVars

(* ------------------------------------------------------------ behaviours *)
Next ==
    \/ \E p \in BOOLEAN, h \in SshHosts \cup {NONE} : Invoke(p, h)
    \/ \E run \in GhRuns : MainToken(run)
    \/ \E sh \in SUBSET SshHosts, th \in SUBSET TsHosts : MainDiscover(sh, th)
    \/ \E sel \in allHosts \cup {NoSel} : MainSelect(sel)
    \/ \E u \in Users : MainUsername(u)
    \/ SessionPlain
    \/ \E s \in Suffix : SessionPath(s)
    \/ ThreadStart
    \/ SpawnInteractive
    \/ SessionReturn
    \/ ConnectFail
    \/ ConnectOk
    \/ BootRm1
    \/ BootMkfifo
    \/ BootChmod
    \/ BootCatOpen
    \/ BootCatEof
    \/ BootCatFail
    \/ BootRm2
    \/ BootExec
    \/ \E st \in ShellStatus : ShellExit(st)
    \/ InterruptLocal
    \/ InterruptRemote
    \/ InjWake
    \/ InjSpawn
    \/ InjConnectFail
    \/ InjConnectOk
    \/ InjRedirect
    \/ InjWriteFile
    \/ InjOpenFifo
    \/ InjWriteFifo
    \/ OtherOpenFifo
    \/ OtherReadFifo
    \/ \E s \in Suffix : OtherReadFile(s)

Spec == Init /\ [][Next]_vars

(* ------------------------------------- vsc.py: open_vscode_devcontainer *)
\* Values of host: the ones is_local_host() takes for the local machine,
\* and a host of ~/.ssh/config.
VscHosts == {"local", "", "build01"}
\* What DOCKER_HOST can be in the environment vsc.py is started in: not set,
\* or set by the operator's shell.
DockerEnv == {NONE, "tcp://10.0.0.5:2375", "ssh://build01"}
\* What list_containers(host, workspace_name) can return: the names of the
\* running containers that match, in docker's order.
ContainerLists == {<<>>, <<"ws_dev">>, <<"ws_dev", "ws_db">>}

\* is_local_host(host), line 61.
IsLocalHost(h) == h \in {"local", "localhost", "127.0.0.1", ""}

\* A subprocess.run call of vsc.py: the child inherits os.environ as it is
\* at the call.
VscProc(prog, kind, env) == [prog |-> prog, kind |-> kind, dockerHost |-> env]

\* The operator runs vsc.py: the process inherits DOCKER_HOST (or its
\* absence) from the shell, and main() selects host, workspace and mode.
VscStart(d, c) ==
    /\ vscPc = "off"
    /\ d \in DockerEnv
    /\ dockerHost' = d
    /\ codeBin' = c
    /\ vscPc' = "main"
    /\ UNCHANGED <<vscHost, dockerBefore, containers, vscProcs>>
    /\ UNCHANGED sshGhVars

\* Line 601: open_vscode_devcontainer(selected_host, ...) is entered.
VscCall(h) ==
    /\ vscPc = "main"
    /\ h \in VscHosts
    /\ vscHost' = h
    /\ dockerBefore' = dockerHost
    /\ vscPc' = "list"
    /\ UNCHANGED <<dockerHost, containers, codeBin, vscProcs>>
    /\ UNCHANGED sshGhVars

\* Line 343: containers = list_containers(host, workspace_name), which runs
\* `docker ps` through the shell, or through ssh_exec on a remote host; a
\* non-zero exit gives the empty list.
VscListContainers(cs) ==
    /\ vscPc = "list"
    /\ cs \in ContainerLists
    /\ containers' = cs
    /\ vscProcs' = Append(vscProcs,
                          VscProc(IF IsLocalHost(vscHost) THEN "sh" ELSE "ssh",
                                  "docker ps", dockerHost))
    /\ vscPc' = IF cs # <<>> THEN "folder" ELSE "fallback"
    /\ UNCHANGED <<vscHost, dockerHost, dockerBefore, codeBin>>
    /\ UNCHANGED sshGhVars

\* Lines 345-360: container = containers[0], the hex configuration,
\* get_workspace_folder (a local file read, or `cat` through ssh_exec),
\* get_code_command and the uri.
VscWorkspaceFolder ==
    /\ vscPc = "folder"
    /\ vscProcs' = IF IsLocalHost(vscHost) THEN vscProcs
                   ELSE Append(vscProcs, VscProc("ssh", "cat", dockerHost))
    /\ vscPc' = "setenv"
    /\ UNCHANGED <<vscHost, dockerHost, dockerBefore, containers, codeBin>>
    /\ UNCHANGED sshGhVars

\* Lines 361-363: if not is_local: os.environ["DOCKER_HOST"] = f"ssh://{host}".
VscSetDockerHost ==
    /\ vscPc = "setenv"
    /\ dockerHost' = IF IsLocalHost(vscHost) THEN dockerHost
                     ELSE "ssh://" \o vscHost
    /\ vscPc' = "code"
    /\ UNCHANGED <<vscHost, dockerBefore, containers, codeBin, vscProcs>>
    /\ UNCHANGED sshGhVars

\* Line 365: subprocess.run([code_cmd, "--folder-uri", uri]). A missing
\* program raises FileNotFoundError, which nothing in vsc.py catches: the
\* function is left at once.
VscRunCode ==
    /\ vscPc = "code"
    /\ vscProcs' = Append(vscProcs, VscProc("code", "--folder-uri", dockerHost))
    /\ vscPc' = IF codeBin THEN "cleanup" ELSE "raised"
    /\ UNCHANGED <<vscHost, dockerHost, dockerBefore, containers, codeBin>>
    /\ UNCHANGED sshGhVars

\* Lines 367-369: if "DOCKER_HOST" in os.environ: del os.environ["DOCKER_HOST"],
\* and the function returns.
VscCleanup ==
    /\ vscPc = "cleanup"
    /\ dockerHost' = IF dockerHost # NONE THEN NONE ELSE dockerHost
    /\ vscPc' = "returned"
    /\ UNCHANGED <<vscHost, dockerBefore, containers, codeBin, vscProcs>>
    /\ UNCHANGED sshGhVars

\* Lines 370-383: no running container: open_vscode_local(workspace_path)
\* or open_vscode_ssh(host, workspace_path), each one subprocess.run of the
\* code command.
VscFallback ==
    /\ vscPc = "fallback"
    /\ vscProcs' = Append(vscProcs,
                          VscProc("code",
                                  IF IsLocalHost(vscHost) THEN "path" ELSE "--remote",
                                  dockerHost))
    /\ vscPc' = IF codeBin THEN "returned" ELSE "raised"
    /\ UNCHANGED <<vscHost, dockerHost, dockerBefore, containers, codeBin>>
    /\ UNCHANGED sshGhVars

VscNext ==
    \/ \E d \in DockerEnv, c \in BOOLEAN : VscStart(d, c)
    \/ \E h \in VscHosts : VscCall(h)
    \/ \E cs \in ContainerLists : VscListContainers(cs)
    \/ VscWorkspaceFolder
    \/ VscSetDockerHost
    \/ VscRunCode
    \/ VscCleanup
    \/ VscFallback

SpecVsc == Init /\ [][VscNext]_vars

(* ---------------------------------------------------------------- claims *)
\* The calls of the current invocation that run ssh.
SshCalls == {i \in DOMAIN procs : procs[i].prog = "ssh"}

\* The FIFO the bootstrap of the current invocation created is at its path.
FifoPresent ==
    /\ fifoPath # NoPath
    /\ fs[fifoPath].kind = "fifo"
    /\ fs[fifoPath].ino = attempt

\* The remote bootstrap sequence has ended: it reached the exec of the login
\* shell, or it failed, or it was killed.
BootstrapEnded == boot \in {"shell", "closed", "failed", "killed"}

\* C1: in every interleaving of the bootstrap and the injector's remote
\* `cat > path`, the token is never stored in a regular file on the remote
\* host, also when the injector's write comes before mkfifo or the bootstrap
\* never runs.
C1_TokenNeverInRegularFile ==
    \A s \in Suffix : fs[s].kind = "file" => fs[s].data \notin Tokens

\* C2: once the bootstrap has created the rendezvous object, no object is at
\* the rendezvous path after the bootstrap sequence has ended, whether the
\* read succeeded, failed, or was interrupted.
C2_NoObjectAfterBootstrap ==
    BootstrapEnded => ~FifoPresent

\* C3: the injector's write attempt happens only after mkfifo has created
\* the FIFO: its open never finds the path empty, a regular file, or a FIFO
\* left by an earlier invocation.
C3_InjectorOpensAfterMkfifo ==
    /\ inj # "writefile"
    /\ inj = "blocked" => injIno = attempt

\* C4: the secret written into the rendezvous object is consumed exactly
\* once: after the injector's write the secret is waiting in the FIFO for the
\* bootstrap's read, or that read is the one read that obtained it and the
\* FIFO is drained, or the session is over; no other read obtains it, and
\* nothing is left at a rendezvous path for a later read to obtain.
C4_ConsumedExactlyOnce ==
    inj = "done" =>
        /\ token \notin leaked
        /\ \A s \in Suffix : ~(fs[s].kind = "file" /\ fs[s].data = token)
        /\ \/ boot = "reading" /\ pipe.buf = token
           \/ boot \in {"rm2", "export", "shell"} /\ pipe.buf = NONE /\ envTok = token
           \/ boot \in {"closed", "killed"}

\* C5: from the creation of the rendezvous object to its removal no other
\* principal on the remote host can open it or observe the secret passing
\* through it, the interval between mkfifo and chmod 600 included.
C5_NoOtherPrincipal ==
    /\ FifoPresent => ~fs[fifoPath].pub
    /\ ~pipe.otherfd
    /\ leaked = {}

\* ssh_with_gh_token has been entered and has spawned, or tried to spawn,
\* its interactive ssh.
SessionStarted ==
    \/ pc = "wait"
    \/ pc = "exited" /\ "Returned to local environment" \in printed

\* C6: a session started with a secret starts exactly one injector thread;
\* the injector names the rendezvous path and the target the interactive
\* bootstrap uses; it makes at most one write attempt, and has ended after
\* that attempt succeeded or failed.
C6_SingleInjector ==
    /\ nThreads <= 1
    /\ injWrites <= 1
    /\ Cardinality({i \in SshCalls : procs[i].kind = "injector"}) = injWrites
    /\ (SessionStarted /\ Truthy(token)) => nThreads = 1
    /\ inj \in {"connecting", "open", "writefile", "blocked", "writefifo",
                "done", "failed"} => injWrites = 1
    /\ \A i, j \in SshCalls :
          (procs[i].kind = "injector" /\ procs[j].kind = "interactive") =>
              /\ procs[i].path = procs[j].path
              /\ procs[i].path = fifoPath
              /\ procs[i].target = procs[j].target

\* C6 witness: the injector's single attempt has failed while the bootstrap
\* waits in its read; the thread has ended and made no second attempt.
C6_Witness ==
    /\ inj = "failed"
    /\ injWrites = 1
    /\ nThreads = 1
    /\ boot = "open_wait"

\* C7 as stated: one path per secured attempt, and no attempt uses a path an
\* earlier attempt used.
C7_PathNeverReused ==
    /\ nPaths <= 1
    /\ fifoPath # NoPath => fifoPath \notin usedPaths

\* C7 amended: every secured session attempt generates exactly one path, at
\* line 212, and every connection of the attempt names that path. (Each
\* attempt draws its suffix afresh, so a later attempt can draw the suffix
\* of an earlier one.)
C7_OnePathPerAttempt ==
    /\ nPaths <= 1
    /\ (SessionStarted /\ Truthy(token)) => (nPaths = 1 /\ fifoPath \in Suffix)
    /\ \A i \in SshCalls :
          procs[i].kind \in {"interactive", "injector"} => procs[i].path = fifoPath

\* C7 witness: a second secured attempt runs on the path the first one used.
C7_Witness ==
    /\ attempt = 2
    /\ pc = "wait"
    /\ nPaths = 1
    /\ fifoPath \in usedPaths

\* C8: the invocation's exit status equals the interactive ssh's exit status
\* in every case (normal exit, non-zero remote exit, interruption), whatever
\* the injector did.
C8_ExitEqualsTransport ==
    (pc = "exited" /\ sshStatus # Running) => exitCode = sshStatus

\* C9: when the secured path is requested and the credential source fails
\* (gh missing, gh exits non-zero, or an empty token), no ssh call of any
\* kind is made in that invocation and it ends with a non-zero status.
C9_NoTransportWithoutCredential ==
    (pc \notin {"idle", "get_token"} /\ ~plain /\ ~Truthy(token)) =>
        /\ pc = "exited"
        /\ exitCode \notin {0, Running}
        /\ SshCalls = {}
        /\ boot = "none"
        /\ inj = "none"
        /\ nThreads = 0

\* C9 witness: gh is missing, the secured path was requested, and the
\* invocation has ended.
C9_Witness ==
    /\ pc = "exited"
    /\ ~plain
    /\ token = NONE
    /\ "Error: FileNotFoundError" \in printed

\* C10: a session started without a secret generates no rendezvous path,
\* starts no injector thread, and makes exactly one ssh call: to the target,
\* without -t and without a remote command.
C10_PlainSession ==
    (SessionStarted /\ ~Truthy(token)) =>
        /\ nPaths = 0
        /\ fifoPath = NoPath
        /\ nThreads = 0
        /\ inj = "none"
        /\ Cardinality(SshCalls) = 1
        /\ \A i \in SshCalls :
              /\ procs[i].kind = "plain"
              /\ procs[i].path = NoPath
              /\ procs[i].lits = {"ssh"}
              /\ procs[i].target = SshTarget(username, host)

\* C10 witness: a plain session has reached the remote login shell.
C10_Witness ==
    /\ plain
    /\ pc = "wait"
    /\ boot = "shell"
    /\ Cardinality(SshCalls) = 1

\* C11: in a secured session where the injector wrote into the FIFO the
\* bootstrap created and both connections succeeded, the bootstrap's read,
\* when it returns and leaves the FIFO drained, captures into MY_GH_TOKEN the
\* token the credential source supplied, and the credential helper then
\* emits username=x-access-token and password=<that token>.
C11_ReadCapturesToken ==
    [][(/\ boot = "reading"
        /\ boot' = "rm2"
        /\ inj = "done"
        /\ injIno = attempt
        /\ pipe'.buf = NONE)
       => /\ envTok' = token
          /\ CredentialHelper(envTok') = <<"username=x-access-token",
                                           "password=" \o token>>]_vars

C13_TokenOnlyOnInjectorStdin ==
    \A i \in DOMAIN procs :
        /\ procs[i].lits \cap (Tokens \cup {token}) = {}
        /\ procs[i].path \notin Tokens
        /\ procs[i].target.user \notin Tokens
        /\ procs[i].target.host \notin Tokens
        /\ procs[i].stdin \in Tokens =>
              (procs[i].kind = "injector" /\ procs[i].stdin = token)
        /\ procs[i].kind = "injector" => procs[i].stdin = token

\* C13 witness: the injector's ssh has been given the token on its standard
\* input and its remote cat has written it into the FIFO.
C13_Witness ==
    /\ inj = "done"
    /\ injIno = attempt
    /\ \E i \in DOMAIN procs :
          /\ procs[i].kind = "injector"
          /\ procs[i].stdin = token
          /\ token \in Tokens
    /\ \E i \in DOMAIN procs : procs[i].kind = "interactive"

\* C14: when mkfifo fails on the remote host, the bootstrap has ended before
\* its read and before the exec of the shell, the interactive ssh ends with
\* a non-zero status and so does the invocation, and there is no retry: one
\* path, one interactive connection.
C14_MkfifoFailureSurfaced ==
    boot = "failed" =>
        /\ envTok = NONE
        /\ sshStatus \notin {0, Running}
        /\ nPaths = 1
        /\ Cardinality({i \in SshCalls : procs[i].kind = "interactive"}) = 1
        /\ pc = "exited" => exitCode \notin {0, Running}

\* C15: when the operator has interrupted the interactive session, locally
\* or on the remote pty, an injector that was started is never stopped
\* before its delivery attempt: the coordinator's return and the teardown of
\* the session leave it to run.
C15_InjectorNotCancelled ==
    (nThreads = 1 /\ (raised = "KeyboardInterrupt" \/ sshStatus = 130)) =>
        inj # "killed"

\* C16: the secret's lifetime on the remote side is bounded by the
\* bootstrap: once the bootstrap sequence has ended, by the exec of the
\* login shell, by failure or by teardown, MY_GH_TOKEN holds no token in the
\* remote shell's environment.
C16_SecretUnsetAfterBootstrap ==
    BootstrapEnded => envTok \notin Tokens

\* C17: a session runs in plain mode if and only if --plain was given: a
\* session that started has a token exactly when plain was not requested, a
\* plain ssh call is made only under --plain and a secured one only without
\* it, and under --plain gh is never run and main holds no token.
C17_PlainIffRequested ==
    /\ SessionStarted => (plain <=> ~Truthy(token))
    /\ \A i \in SshCalls :
          /\ procs[i].kind = "plain" => plain
          /\ procs[i].kind \in {"interactive", "injector"} => ~plain
    /\ plain =>
          /\ \A i \in DOMAIN procs : procs[i].prog # "gh"
          /\ token = NONE
          /\ nThreads = 0
          /\ fifoPath = NoPath

\* C17 witness: a session requested with --plain has run and ended; gh was
\* not run.
C17_Witness ==
    /\ plain
    /\ pc = "exited"
    /\ sshStatus = 0
    /\ "plain mode" \in printed
    /\ \E i \in SshCalls : procs[i].kind = "plain"
    /\ \A i \in DOMAIN procs : procs[i].prog # "gh"

\* C18: when discovery finds no host or the selection is cancelled, the
\* failure is printed and the invocation ends without a session: no ssh call
\* of any kind, no path, no injector thread, and ssh_with_gh_token is never
\* entered. These are the only two ends between the credential and the
\* session.
C18_NoSessionWithoutHost ==
    /\ ({"No hosts found", "No host selected"} \cap printed # {}) =>
          /\ pc = "exited"
          /\ SshCalls = {}
          /\ boot = "none"
          /\ inj = "none"
          /\ nThreads = 0
          /\ nPaths = 0
          /\ ~SessionStarted
    /\ (pc = "exited" /\ ~SessionStarted /\ (plain \/ Truthy(token))) =>
          \/ "No hosts found" \in printed /\ exitCode = 1
          \/ "No host selected" \in printed /\ exitCode = 0

\* C18 witness: the token was obtained, hosts were found, and the operator
\* cancelled the selection.
C18_Witness ==
    /\ pc = "exited"
    /\ Truthy(token)
    /\ "No host selected" \in printed
    /\ \E i \in DOMAIN procs : procs[i].prog = "fzf"
    /\ exitCode = 0

\* C19: the bootstrap reaches each of its steps only from the step before
\* it, having succeeded: mkfifo after the stale object is gone, chmod after
\* the FIFO is created, the read after the mode is restricted, the second rm
\* only after the read of the FIFO has returned (a writer opened and closed
\* it), the exports after the FIFO is removed, and the exec of the login
\* shell last.
C19_ExecAfterAllSteps ==
    [][(fifoPath # NoPath /\ boot' # boot) =>
          /\ boot' = "mkfifo" => (boot = "rm1" /\ fs'[fifoPath].kind = "none")
          /\ boot' = "chmod" => (boot = "mkfifo" /\ FifoPresent')
          /\ boot' = "cat" => (boot = "chmod" /\ FifoPresent' /\ ~fs'[fifoPath].pub)
          /\ boot' = "open_wait" => boot = "cat"
          /\ boot' = "reading" => boot \in {"cat", "open_wait"}
          /\ boot' = "rm2" => (boot = "reading" /\ ~pipe.wopen)
          /\ boot' = "export" => (boot = "rm2" /\ ~FifoPresent')
          /\ boot' = "shell" => boot = "export"]_vars

\* C20: the injector never delays the interactive session: once the thread
\* is started the coordinator can spawn the interactive ssh at once, and it
\* does so while the injector is still in its startup delay; once the
\* interactive ssh has exited or raised, the coordinator can return at once,
\* whatever the injector's position.
C20_InjectorNeverBlocks ==
    /\ pc = "spawn" => (inj = "sleeping" /\ ENABLED SpawnInteractive)
    /\ (pc = "wait" /\ (sshStatus # Running \/ raised # NONE)) =>
          ENABLED SessionReturn

\* C20 witness: the interactive ssh failed to connect and the coordinator
\* has returned while the injector's own ssh is still connecting.
C20_Witness ==
    /\ pc = "exited"
    /\ sshStatus = 255
    /\ "Returned to local environment" \in printed
    /\ inj = "connecting"
    /\ injWrites = 1

\* C21: open_vscode_devcontainer leaves the process environment as it found
\* it: when the call has returned, DOCKER_HOST has the value it had when the
\* call was entered, for every host and every prior value, unset included.
C21_DockerHostRestored ==
    vscPc = "returned" => dockerHost = dockerBefore

====
